---- MODULE Spec2Model ----
(***************************************************************************)
(* Model of the backend handler helpers of the platform repository:       *)
(*   ParseRepoMap      - validation of one spec.repos[] entry              *)
(*   RetryWithBackoff  - bounded retry with exponential backoff            *)
(*   ValidateSecretAccess - the access review guarding secrets             *)
(* and of the submit path of the frontend's CreateSessionDialog.           *)
(* Strings are sequences of characters; Go interface{} values are tagged   *)
(* records; a nil pointer is Nil and a non-nil pointer is [val |-> x].     *)
(***************************************************************************)
EXTENDS Integers, Sequences, FiniteSets, TLC

(***************************************************************************)
(* Bounds of the model.                                                    *)
(***************************************************************************)
\* longest string drawn for a url of a payload
MaxLen == 2
\* largest maxRetries drawn for a call of RetryWithBackoff
MaxRetries == 4
\* largest of the short durations drawn for initialDelay and maxDelay
MaxDelay == 4
\* number of duration units in half the int64 range (see RetryWithBackoff)
DurationRange == 32
\* longest string in a payload that also carries keys the validator never reads
MaxShortLen == 1
\* number of successive calls of ValidateSecretAccess
MaxChecks == 2
\* largest number of repositories in the session form
MaxRepos == 1

(***************************************************************************)
(* Characters and strings.                                                 *)
(***************************************************************************)
\* a space: white space for strings.TrimSpace, accepted by url.Parse
SP == " "
\* a tab: white space for strings.TrimSpace and an ASCII control byte,
\* which url.Parse rejects
TAB == "\t"
\* U+0085 (next line): white space for strings.TrimSpace, not for the
\* String.prototype.trim of JavaScript, and no ASCII control byte
NEL == "N"

UrlChars == {SP, TAB, "a"}
BranchChars == {SP, "a"}

RECURSIVE StringsUpTo(_, _)
StringsUpTo(chars, n) ==
    IF n = 0 THEN {<<>>}
    ELSE LET shorter == StringsUpTo(chars, n - 1)
         IN  shorter \cup {Append(s, c) : s \in shorter, c \in chars}

\* unicode.IsSpace
IsSpace(c) == c \in {SP, TAB, NEL}

RECURSIVE TrimLeft(_)
TrimLeft(s) ==
    IF s # <<>> /\ IsSpace(Head(s)) THEN TrimLeft(Tail(s)) ELSE s

RECURSIVE TrimRight(_)
TrimRight(s) ==
    IF s # <<>> /\ IsSpace(s[Len(s)])
    THEN TrimRight(SubSeq(s, 1, Len(s) - 1))
    ELSE s

\* strings.TrimSpace: the string without its leading and trailing white space
TrimSpace(s) == TrimRight(TrimLeft(s))

\* net/url Parse fails on a string holding an ASCII control byte; every other
\* string over UrlChars parses (no scheme, no host, no escape)
UrlParseFails(s) == \E k \in 1..Len(s) : s[k] = TAB

(***************************************************************************)
(* Untyped payload values (Go interface{}).                                *)
(***************************************************************************)
Absent == [t |-> "absent"]
Num == [t |-> "number"]
Str(s) == [t |-> "string", s |-> s]
Bool(b) == [t |-> "bool", b |-> b]
Map(url, branch) == [t |-> "map", url |-> url, branch |-> branch]

IsMap(v) == v.t = "map"
IsString(v) == v.t = "string"
IsBool(v) == v.t = "bool"

UrlValues == {Absent, Num} \cup {Str(s) : s \in StringsUpTo(UrlChars, MaxLen)}
\* the branch strings drawn: empty, blank, plain, and with white space
\* before or after
BranchStrings ==
    {<<>>, <<SP>>, <<SP, SP>>, <<"a">>, <<"a", "a">>, <<SP, "a">>, <<"a", SP>>}
BranchValues == {Absent, Num} \cup {Str(s) : s \in BranchStrings}
LocationValues ==
    {Absent, Num, Str(<<"a">>)} \cup {Map(u, b) : u \in UrlValues, b \in BranchValues}
AutoPushValues == {Absent, Num, Bool(TRUE), Bool(FALSE)}

Payloads ==
    [input : LocationValues, output : LocationValues, autoPush : AutoPushValues]

\* payloads whose mappings carry other keys as well: "name" beside
\* input/output/autoPush, "path" beside url/branch
OtherKeyValues == {Absent, Str(<<"a">>)}
KeyedMap(u, b, o) == [t |-> "map", url |-> u, branch |-> b, path |-> o]
KeyedLocationValues ==
    {Absent, Num, Str(<<"a">>)}
        \cup {KeyedMap(u, b, o) :
                u \in {Absent, Num}
                        \cup {Str(x) : x \in StringsUpTo(UrlChars, MaxShortLen)},
                b \in {Absent, Num}
                        \cup {Str(x) : x \in StringsUpTo(BranchChars, MaxShortLen)},
                o \in OtherKeyValues}
KeyedPayloads ==
    [input : KeyedLocationValues, output : KeyedLocationValues,
     autoPush : AutoPushValues, name : OtherKeyValues]

(***************************************************************************)
(* ParseRepoMap                                                            *)
(***************************************************************************)
Nil == [t |-> "nil"]
Ptr(x) == [t |-> "ptr", val |-> x]

\* the message a mistaken edit of line 90 would give
ErrInputRequiredShort == "input is required"
ErrInputRequired == "input is required in repository configuration"
ErrInputUrlRequired == "input.url is required"
ErrInvalidInputUrl == "invalid input.url format"
ErrInvalidOutputUrl == "invalid output.url format"
ErrMustDiffer ==
    "output repository must differ from input (different URL or branch required)"
ErrUrlControl == "net/url: invalid control character in URL"

\* fmt.Errorf: a message and, with %w, the error it wraps ("" when none)
Error(msg, wrapped) == [t |-> "error", msg |-> msg, wraps |-> wrapped]

EmptyRepo == [Input |-> Nil, Output |-> Nil, AutoPush |-> Nil]

\* the type assertion m["input"].(map[string]interface{})
HasInput(p) == IsMap(p.input)

\* the type assertion m["output"].(map[string]interface{})
HasOutput(p) == IsMap(p.output)

\* mutant of ParseLocation: the branch is stored trimmed
ParseLocationTrimmed(lm) ==
    [URL    |-> IF IsString(lm.url) THEN lm.url.s ELSE <<>>,
     Branch |-> IF IsString(lm.branch) /\ TrimSpace(lm.branch.s) # <<>>
                THEN Ptr(TrimSpace(lm.branch.s))
                ELSE Nil]

\* mutant of ParseLocation: every string branch is stored, blank or not
ParseLocationKeepBlank(lm) ==
    [URL    |-> IF IsString(lm.url) THEN lm.url.s ELSE <<>>,
     Branch |-> IF IsString(lm.branch) THEN Ptr(lm.branch.s) ELSE Nil]

\* mutant of ParseLocation: the branch is tested as given and stored trimmed
ParseLocationTrimAfterTest(lm) ==
    [URL    |-> IF IsString(lm.url) THEN lm.url.s ELSE <<>>,
     Branch |-> IF IsString(lm.branch) /\ lm.branch.s # <<>>
                THEN Ptr(TrimSpace(lm.branch.s))
                ELSE Nil]

\* the RepoLocation built from a location mapping
ParseLocation(lm) ==
    [URL    |-> IF IsString(lm.url) THEN lm.url.s ELSE <<>>,
     Branch |-> IF IsString(lm.branch) /\ TrimSpace(lm.branch.s) # <<>>
                THEN Ptr(lm.branch.s)
                ELSE Nil]

\* mutant of ParseAutoPush: an omitted autoPush defaults to false
ParseAutoPushDefaultFalse(v) == IF IsBool(v) THEN Ptr(v.b) ELSE Ptr(FALSE)

\* the *bool built from m["autoPush"]
\* mutant of ParseAutoPush: a present value of another type counts as true
ParseAutoPushTruthy(v) ==
    IF IsBool(v) THEN Ptr(v.b) ELSE IF v = Absent THEN Nil ELSE Ptr(TRUE)

ParseAutoPush(v) == IF IsBool(v) THEN Ptr(v.b) ELSE Nil

\* mutant of InputUrlMissing: the url is compared without trimming
InputUrlEmpty(repo) == repo.Input.val.URL = <<>>

InputUrlMissing(repo) == TrimSpace(repo.Input.val.URL) = <<>>

InputUrlInvalid(repo) == UrlParseFails(repo.Input.val.URL)

\* mutant of OutputUrlInvalid: a blank output url is parsed too
OutputUrlInvalidBlankToo(repo) ==
    /\ repo.Output # Nil
    /\ UrlParseFails(repo.Output.val.URL)

OutputUrlInvalid(repo) ==
    /\ repo.Output # Nil
    /\ TrimSpace(repo.Output.val.URL) # <<>>
    /\ UrlParseFails(repo.Output.val.URL)

BranchOrEmpty(loc) ==
    IF loc.Branch # Nil THEN TrimSpace(loc.Branch.val) ELSE <<>>

\* mutant of SameRepo: the branches are compared as stored, untrimmed
SameRepoRawBranch(in, out) ==
    /\ TrimSpace(in.URL) = TrimSpace(out.URL)
    /\ in.Branch = out.Branch

SameRepo(in, out) ==
    /\ TrimSpace(in.URL) = TrimSpace(out.URL)
    /\ BranchOrEmpty(in) = BranchOrEmpty(out)

OutputEqualsInput(repo) ==
    repo.Output # Nil /\ SameRepo(repo.Input.val, repo.Output.val)

\* mutant of ParseRepoMap: the output is compared with the input before
\* its url is parsed
ParseRepoMapCompareFirst(p) ==
    IF ~HasInput(p)
    THEN [r |-> EmptyRepo, err |-> Error(ErrInputRequired, "")]
    ELSE
      LET repo == [Input    |-> Ptr(ParseLocation(p.input)),
                   Output   |-> IF HasOutput(p)
                                THEN Ptr(ParseLocation(p.output))
                                ELSE Nil,
                   AutoPush |-> ParseAutoPush(p.autoPush)]
      IN  IF InputUrlMissing(repo)
          THEN [r |-> repo, err |-> Error(ErrInputUrlRequired, "")]
          ELSE IF InputUrlInvalid(repo)
          THEN [r |-> repo, err |-> Error(ErrInvalidInputUrl, ErrUrlControl)]
          ELSE IF OutputEqualsInput(repo)
          THEN [r |-> repo, err |-> Error(ErrMustDiffer, "")]
          ELSE IF OutputUrlInvalid(repo)
          THEN [r |-> repo, err |-> Error(ErrInvalidOutputUrl, ErrUrlControl)]
          ELSE [r |-> repo, err |-> Nil]

ParseRepoMap(p) ==
    IF ~HasInput(p)
    THEN [r |-> EmptyRepo, err |-> Error(ErrInputRequired, "")]
    ELSE
      LET repo == [Input    |-> Ptr(ParseLocation(p.input)),
                   Output   |-> IF HasOutput(p)
                                THEN Ptr(ParseLocation(p.output))
                                ELSE Nil,
                   AutoPush |-> ParseAutoPush(p.autoPush)]
      IN  IF InputUrlMissing(repo)
          THEN [r |-> repo, err |-> Error(ErrInputUrlRequired, "")]
          ELSE IF InputUrlInvalid(repo)
          THEN [r |-> repo, err |-> Error(ErrInvalidInputUrl, ErrUrlControl)]
          ELSE IF OutputUrlInvalid(repo)
          THEN [r |-> repo, err |-> Error(ErrInvalidOutputUrl, ErrUrlControl)]
          ELSE IF OutputEqualsInput(repo)
          THEN [r |-> repo, err |-> Error(ErrMustDiffer, "")]
          ELSE [r |-> repo, err |-> Nil]

(***************************************************************************)
(* RetryWithBackoff                                                        *)
(*                                                                         *)
(* A time.Duration is an int64 count of nanoseconds.  The model counts     *)
(* durations in units of 2^63 / DurationRange nanoseconds, so the int64    *)
(* range is -DurationRange .. DurationRange - 1 units and every product    *)
(* initialDelay * 2^i of the model is exact in float64.                    *)
(***************************************************************************)
MinDuration == -DurationRange
\* math.MaxInt64 nanoseconds, one nanosecond short of DurationRange units:
\* above every other duration of the model
MaxDuration == DurationRange

\* the values drawn for initialDelay and maxDelay
Durations ==
    (0 .. MaxDelay) \cup {DurationRange \div 2, DurationRange - 1}

\* the values drawn for maxRetries
RetryCounts == -1 .. MaxRetries

\* the failures the operation can return
OpErrors == {Error("not found", ""), Error("conflict", "")}

\* what one invocation of operation() returns: nil or a failure
OpResults == {Nil} \cup OpErrors

\* the conversion time.Duration(f) of a float64: exact when f is in the
\* int64 range; otherwise implementation-dependent: the smallest int64
\* (amd64) or the nearest int64 (arm64)
ToDuration(f) ==
    IF f >= DurationRange THEN {MinDuration, MaxDuration}
    ELSE IF f < -DurationRange THEN {MinDuration}
    ELSE {f}

\* mutant of CapDelay: the delay is not capped
CapDelayNone(d, cap) == d

CapDelay(d, cap) == IF d > cap THEN cap ELSE d

\* the delays the executor can compute after the failed attempt of index k
BackoffDelays(initial, cap, k) ==
    {CapDelay(d, cap) : d \in ToDuration(initial * 2^k)}

\* mutant of LoopContinues: one attempt too many
LoopContinuesInclusive(k, n) == k <= n

\* the loop condition i < maxRetries
LoopContinues(k, n) == k < n

\* the condition i < maxRetries-1 for sleeping and trying again
RetriesRemain(k, n) == k < n - 1

\* mutant of RecordFailure: the first failure is kept
RecordFailureFirst(last, e) == IF last = Nil THEN e ELSE last

\* lastErr = err
RecordFailure(last, e) == e

\* mutant of RetriesExhausted: the last failure itself is returned
RetriesExhaustedLastErr(n, last) == last

\* fmt.Errorf("operation failed after %d retries: %w", maxRetries, lastErr)
RetriesExhausted(n, last) ==
    [t |-> "error", msg |-> "operation failed after %d retries",
     retries |-> n, wraps |-> last]

(***************************************************************************)
(* ValidateSecretAccess                                                    *)
(***************************************************************************)
Namespaces == {"team-a", "team-b"}
Verbs == {"create", "get", "update", "delete"}

\* the failures the call to the authorization API can return
OracleErrors == {Error("connection refused", ""), Error("timeout", "")}

\* what SelfSubjectAccessReviews().Create returns: the review with its
\* Status.Allowed, and an error or nil
OracleAnswers == [allowed : BOOLEAN, err : {Nil} \cup OracleErrors]

\* mutant of AccessReview: the review names another resource
AccessReviewSecret(namespace, verb) ==
    [kind |-> "SelfSubjectAccessReview", group |-> "", resource |-> "secret",
     verb |-> verb, namespace |-> namespace]

\* the review sent: the caller's own access to secrets of the core group
AccessReview(namespace, verb) ==
    [kind |-> "SelfSubjectAccessReview", group |-> "", resource |-> "secrets",
     verb |-> verb, namespace |-> namespace]

\* fmt.Errorf("RBAC check failed: %w", err)
RbacCheckFailed(e) == Error("RBAC check failed", e)

\* fmt.Errorf("user not allowed to %s secrets in namespace %s", verb, namespace)
NotAllowed(namespace, verb) ==
    [t |-> "error", msg |-> "user not allowed to %s secrets in namespace %s",
     verb |-> verb, namespace |-> namespace, wraps |-> Nil]

\* mutant of AccessResult: the verdict is read before the error
AccessResultVerdictFirst(answer, namespace, verb) ==
    IF ~answer.allowed THEN NotAllowed(namespace, verb)
    ELSE IF answer.err # Nil THEN RbacCheckFailed(answer.err)
    ELSE Nil

\* what ValidateSecretAccess returns for an answer of the API
AccessResult(answer, namespace, verb) ==
    IF answer.err # Nil THEN RbacCheckFailed(answer.err)
    ELSE IF ~answer.allowed THEN NotAllowed(namespace, verb)
    ELSE Nil

(***************************************************************************)
(* CreateSessionDialog: the repositories of the session form, the schema   *)
(* handleSubmit validates them with, and the request onSubmit builds.      *)
(* A url of the form is a string; an optional field is Undefined or a      *)
(* tagged value.                                                           *)
(***************************************************************************)
Undefined == [t |-> "undefined"]
JsArray(items) == [t |-> "array", items |-> items]
NoRequest == [t |-> "none"]

\* white space for String.prototype.trim
JsWhiteSpace == {SP, TAB}
\* what the URL parser strips from both ends: C0 controls and space
C0ControlOrSpace == {SP, TAB}
\* the characters of a URL scheme
SchemeChars == {"a"}

RECURSIVE StripLeft(_, _)
StripLeft(s, chars) ==
    IF s # <<>> /\ Head(s) \in chars THEN StripLeft(Tail(s), chars) ELSE s

RECURSIVE StripRight(_, _)
StripRight(s, chars) ==
    IF s # <<>> /\ s[Len(s)] \in chars
    THEN StripRight(SubSeq(s, 1, Len(s) - 1), chars)
    ELSE s

\* String.prototype.trim
JsTrim(s) == StripRight(StripLeft(s, JsWhiteSpace), JsWhiteSpace)

\* new URL(u) throws unless u, stripped, begins with a scheme and ':'
NewUrlThrows(u) ==
    LET t == StripRight(StripLeft(u, C0ControlOrSpace), C0ControlOrSpace)
    IN  ~ \E k \in 1..(Len(t) - 1) :
              /\ \A j \in 1..k : t[j] \in SchemeChars
              /\ t[k + 1] = ":"

\* the urls typed in the form: empty, blank, U+0085, a word, and URLs
FormUrls ==
    {<<>>, <<SP>>, <<NEL>>, <<"a">>, <<"a", ":">>, <<SP, "a", ":">>}
FormBranches == {Undefined, Str(<<"a">>)}
FormLocations == [url : FormUrls, branch : FormBranches]
FormRepos ==
    [input : FormLocations, output : {Undefined} \cup FormLocations,
     autoPush : {Undefined, Bool(FALSE), Bool(TRUE)}]

RECURSIVE ReposUpTo(_)
ReposUpTo(n) ==
    IF n = 0 THEN {<<>>}
    ELSE LET shorter == ReposUpTo(n - 1)
         IN  shorter \cup {Append(l, repo) : l \in shorter, repo \in FormRepos}

\* the projectName prop of the dialog
ProjectNames == {"", "demo"}

\* mutant of UrlSchemaAccepts: only .min(1)
UrlSchemaMinOnly(u) == Len(u) >= 1

\* z.string().min(1, "URL is required").url("Must be a valid URL")
UrlSchemaAccepts(u) == Len(u) >= 1 /\ ~NewUrlThrows(u)

\* repoLocationSchema
RepoLocationSchemaAccepts(loc) == UrlSchemaAccepts(loc.url)

\* sessionRepoSchema
SessionRepoSchemaAccepts(repo) ==
    /\ RepoLocationSchemaAccepts(repo.input)
    /\ repo.output # Undefined => RepoLocationSchemaAccepts(repo.output)

\* formSchema, as far as repos goes
FormSchemaAccepts(v) ==
    \A k \in 1..Len(v.repos) : SessionRepoSchemaAccepts(v.repos[k])

\* url && url.trim() !== ""
UrlNotEmpty(u) == u # <<>> /\ JsTrim(u) # <<>>

KeepRepo(repo) == UrlNotEmpty(repo.input.url)

CleanRepo(repo) ==
    [input    |-> repo.input,
     output   |-> IF repo.output # Undefined /\ UrlNotEmpty(repo.output.url)
                  THEN repo.output
                  ELSE Undefined,
     autoPush |-> repo.autoPush]

\* values.repos?.filter(...).map(...)
CleanedRepos(repos) ==
    LET kept == SelectSeq(repos, KeepRepo)
    IN  [k \in 1..Len(kept) |-> CleanRepo(kept[k])]

\* the repos of the request onSubmit sends
OnSubmit(v) ==
    LET cleanedRepos == CleanedRepos(v.repos)
    IN  [repos |-> IF Len(cleanedRepos) > 0
                   THEN JsArray(cleanedRepos)
                   ELSE Undefined]

(***************************************************************************)
(* State.                                                                  *)
(***************************************************************************)
VARIABLES
    ppc,          \* ParseRepoMap call: "idle" before the call, "done" after it
    m,            \* the payload ParseRepoMap was called with
    r,            \* the SimpleRepo it returned
    perr,         \* the error it returned, Nil on success
    rpc,          \* RetryWithBackoff: "idle", "loop", "sleep" or "done"
    maxRetries,   \* its arguments
    initialDelay,
    maxDelay,
    i,            \* its loop index
    lastErr,      \* its lastErr
    rres,         \* the error it returned, Nil on success
    log,          \* what each invocation of operation() returned, in order
    sleeps,       \* the argument of each time.Sleep call, in order
    cancelled,    \* the caller has signalled cancellation
    gpc,          \* ValidateSecretAccess: "idle", "waiting" or "done"
    checks,       \* the (namespace, verb) of each call of it, in order
    reviews,      \* every review sent to the authorization API, in order
    answer,       \* the answer of the API to the last review
    gres,         \* the error the last call returned, Nil when allowed
    fpc,          \* the session form: "editing", "invalid" or "submitted"
    values,       \* the form values handed to handleSubmit
    request       \* the request onSubmit sent, NoRequest when none

parseVars == <<ppc, m, r, perr>>
retryVars ==
    <<rpc, maxRetries, initialDelay, maxDelay, i, lastErr, rres, log, sleeps,
      cancelled>>
guardVars == <<gpc, checks, reviews, answer, gres>>
formVars == <<fpc, values, request>>
vars == <<parseVars, retryVars, guardVars, formVars>>

ParseIdle ==
    /\ ppc = "idle"
    /\ m = [input |-> Absent, output |-> Absent, autoPush |-> Absent]
    /\ r = EmptyRepo
    /\ perr = Nil

RetryIdle ==
    /\ rpc = "idle"
    /\ maxRetries = 0
    /\ initialDelay = 0
    /\ maxDelay = 0
    /\ i = 0
    /\ lastErr = Nil
    /\ rres = Nil
    /\ log = <<>>
    /\ sleeps = <<>>
    /\ cancelled = FALSE

GuardIdle ==
    /\ gpc = "idle"
    /\ checks = <<>>
    /\ reviews = <<>>
    /\ answer = [allowed |-> FALSE, err |-> Nil]
    /\ gres = Nil

FormIdle ==
    /\ fpc = "editing"
    /\ values = [repos |-> <<>>]
    /\ request = NoRequest

Init == ParseIdle /\ RetryIdle /\ GuardIdle /\ FormIdle

\* one call of ParseRepoMap on a payload
CallParseRepoMap ==
    /\ ppc = "idle"
    /\ \E p \in Payloads :
          LET res == ParseRepoMap(p)
          IN  /\ m' = p
              /\ r' = res.r
              /\ perr' = res.err
    /\ ppc' = "done"
    /\ UNCHANGED <<retryVars, guardVars, formVars>>

NextParse == CallParseRepoMap

SpecParse == Init /\ [][NextParse]_vars

\* one call of ParseRepoMap on a payload that carries other keys as well
CallParseRepoMapKeyed ==
    /\ ppc = "idle"
    /\ \E p \in KeyedPayloads :
          LET res == ParseRepoMap(p)
          IN  /\ m' = p
              /\ r' = res.r
              /\ perr' = res.err
    /\ ppc' = "done"
    /\ UNCHANGED <<retryVars, guardVars, formVars>>

NextParseKeyed == CallParseRepoMapKeyed

SpecParseKeyed == Init /\ [][NextParseKeyed]_vars

\* RetryWithBackoff is called: var lastErr error; i := 0
CallRetryWithBackoff ==
    /\ rpc = "idle"
    /\ \E n \in RetryCounts, d0 \in Durations, dmax \in Durations :
          /\ maxRetries' = n
          /\ initialDelay' = d0
          /\ maxDelay' = dmax
    /\ i' = 0
    /\ lastErr' = Nil
    /\ rpc' = "loop"
    /\ UNCHANGED <<rres, log, sleeps, cancelled, parseVars, guardVars, formVars>>

\* one pass of the loop body: operation() is invoked; on success the function
\* returns nil; on failure lastErr is set and, when retries remain, the
\* delay is computed and time.Sleep(delay) is called
Attempt ==
    /\ rpc = "loop"
    /\ LoopContinues(i, maxRetries)
    /\ \E e \in OpResults :
          /\ log' = Append(log, e)
          /\ IF e # Nil
             THEN /\ lastErr' = RecordFailure(lastErr, e)
                  /\ rres' = rres
                  /\ IF RetriesRemain(i, maxRetries)
                     THEN /\ \E d \in BackoffDelays(initialDelay, maxDelay, i) :
                                sleeps' = Append(sleeps, d)
                          /\ rpc' = "sleep"
                          /\ i' = i
                     ELSE /\ sleeps' = sleeps
                          /\ rpc' = "loop"
                          /\ i' = i + 1
             ELSE /\ rres' = Nil
                  /\ rpc' = "done"
                  /\ UNCHANGED <<lastErr, sleeps, i>>
    /\ UNCHANGED <<maxRetries, initialDelay, maxDelay, cancelled, parseVars, guardVars, formVars>>

\* time.Sleep returns; continue: i++
WakeUp ==
    /\ rpc = "sleep"
    /\ i' = i + 1
    /\ rpc' = "loop"
    /\ UNCHANGED <<maxRetries, initialDelay, maxDelay, lastErr, rres, log,
                   sleeps, cancelled, parseVars, guardVars, formVars>>

\* the loop is over: the error naming maxRetries and wrapping lastErr
GiveUp ==
    /\ rpc = "loop"
    /\ ~LoopContinues(i, maxRetries)
    /\ rres' = RetriesExhausted(maxRetries, lastErr)
    /\ rpc' = "done"
    /\ UNCHANGED <<maxRetries, initialDelay, maxDelay, i, lastErr, log,
                   sleeps, cancelled, parseVars, guardVars, formVars>>

\* the caller signals cancellation while the executor sleeps between two
\* attempts; RetryWithBackoff takes no context and reads no such signal
Cancel ==
    /\ rpc = "sleep"
    /\ ~cancelled
    /\ cancelled' = TRUE
    /\ UNCHANGED <<rpc, maxRetries, initialDelay, maxDelay, i, lastErr, rres,
                   log, sleeps, parseVars, guardVars, formVars>>

NextRetry ==
    \/ CallRetryWithBackoff
    \/ Attempt
    \/ WakeUp
    \/ GiveUp
    \/ Cancel

SpecRetry == Init /\ [][NextRetry]_vars

\* ValidateSecretAccess is called: the review is built and sent with Create
CallValidateSecretAccess ==
    /\ gpc \in {"idle", "done"}
    /\ Len(checks) < MaxChecks
    /\ \E ns \in Namespaces, verb \in Verbs :
          /\ checks' = Append(checks, [namespace |-> ns, verb |-> verb])
          /\ reviews' = Append(reviews, AccessReview(ns, verb))
    /\ gpc' = "waiting"
    /\ UNCHANGED <<answer, gres, parseVars, retryVars, formVars>>

\* Create returns and ValidateSecretAccess returns its result
ReturnValidateSecretAccess ==
    /\ gpc = "waiting"
    /\ \E a \in OracleAnswers :
          /\ answer' = a
          /\ gres' = AccessResult(a, checks[Len(checks)].namespace,
                                  checks[Len(checks)].verb)
    /\ gpc' = "done"
    /\ UNCHANGED <<checks, reviews, parseVars, retryVars, formVars>>

NextGuard ==
    \/ CallValidateSecretAccess
    \/ ReturnValidateSecretAccess

SpecGuard == Init /\ [][NextGuard]_vars

\* the form is submitted: handleSubmit validates the values with the schema
\* and shows the errors when they fail; otherwise it calls onSubmit, which
\* returns at once without a project name and else sends the request
HandleSubmit ==
    /\ fpc = "editing"
    /\ \E v \in [repos : ReposUpTo(MaxRepos)], projectName \in ProjectNames :
          /\ values' = v
          /\ IF ~FormSchemaAccepts(v)
             THEN fpc' = "invalid" /\ request' = NoRequest
             ELSE IF projectName = ""
             THEN fpc' = "dropped" /\ request' = NoRequest
             ELSE fpc' = "submitted" /\ request' = OnSubmit(v)
    /\ UNCHANGED <<parseVars, retryVars, guardVars>>

NextForm == HandleSubmit

SpecForm == Init /\ [][NextForm]_vars

(***************************************************************************)
(* Properties of ParseRepoMap, over the payload m of the call and the      *)
(* result (r, perr) it returned.                                           *)
(***************************************************************************)
Parsed == ppc = "done"

\* the url of a location mapping is absent, not a string, empty or white space
BlankUrl(lm) ==
    \/ ~IsString(lm.url)
    \/ \A k \in 1..Len(lm.url.s) : IsSpace(lm.url.s[k])

\* the url of a location mapping is a non-blank string that url.Parse accepts
GoodUrl(lm) == ~BlankUrl(lm) /\ ~UrlParseFails(lm.url.s)

HasNonSpace(s) == \E k \in 1..Len(s) : ~IsSpace(s[k])

\* the trimmed url of a location mapping, empty when it has no string url
NormUrl(lm) == IF IsString(lm.url) THEN TrimSpace(lm.url.s) ELSE <<>>

\* the trimmed branch of a location mapping, empty when it has no string branch
NormBranch(lm) == IF IsString(lm.branch) THEN TrimSpace(lm.branch.s) ELSE <<>>

\* the branch a location of the result must carry for a payload branch b
NormalizedBranch(b) ==
    IF IsString(b) /\ HasNonSpace(b.s) THEN Ptr(b.s) ELSE Nil

\* C1: a payload whose input is absent or not a mapping is rejected with
\* exactly "input is required in repository configuration", whatever its
\* other keys hold.
C1_InputRequired ==
    (Parsed /\ ~IsMap(m.input))
        => perr = Error("input is required in repository configuration", "")

C1_Witness ==
    /\ Parsed
    /\ m.input = Str(<<"a">>)
    /\ IsMap(m.output)
    /\ m.autoPush = Bool(TRUE)
    /\ perr # Nil
    /\ perr.msg = "input is required in repository configuration"

\* C2: a payload whose input is a mapping with an absent, non-string, empty
\* or white-space url is rejected with exactly "input.url is required",
\* whatever its branch, output and autoPush.
C2_InputUrlRequired ==
    (Parsed /\ IsMap(m.input) /\ BlankUrl(m.input))
        => perr = Error("input.url is required", "")

C2_Witness ==
    /\ Parsed
    /\ IsMap(m.input)
    /\ m.input.url = Str(<<SP, SP>>)
    /\ m.input.branch = Str(<<"a">>)
    /\ IsMap(m.output)
    /\ perr # Nil
    /\ perr.msg = "input.url is required"

\* the payload's output names the same trimmed url and the same trimmed
\* branch-or-empty as its input, whose url is non-blank and parseable
SameAsInput ==
    /\ IsMap(m.input)
    /\ GoodUrl(m.input)
    /\ IsMap(m.output)
    /\ NormUrl(m.output) = NormUrl(m.input)
    /\ NormBranch(m.output) = NormBranch(m.input)

\* no accepted result with an output has equal normalized (url, branch) pairs
AcceptedOutputDiffers ==
    (Parsed /\ perr = Nil /\ r.Output # Nil)
        => \/ TrimSpace(r.Output.val.URL) # TrimSpace(r.Input.val.URL)
           \/ (IF r.Output.val.Branch = Nil
               THEN <<>> ELSE TrimSpace(r.Output.val.Branch.val))
              # (IF r.Input.val.Branch = Nil
                 THEN <<>> ELSE TrimSpace(r.Input.val.Branch.val))

\* C3 as stated: every output equal to the input after normalization is
\* rejected with exactly the "must differ" message.
C3_Original ==
    /\ (Parsed /\ SameAsInput)
          => perr = Error("output repository must differ from input (different URL or branch required)", "")
    /\ AcceptedOutputDiffers

\* C3 (amended): an output whose url is parseable and that equals the input
\* after normalization is rejected with exactly the "must differ" message;
\* an output equal to the input whose own url does not parse is rejected
\* too, with the "invalid output.url format" message; so no accepted result
\* with an output has equal normalized (url, branch) pairs.
C3_MustDiffer ==
    /\ (Parsed /\ SameAsInput /\ ~UrlParseFails(m.output.url.s))
          => perr = Error("output repository must differ from input (different URL or branch required)", "")
    /\ (Parsed /\ SameAsInput /\ UrlParseFails(m.output.url.s))
          => (perr # Nil /\ perr.msg = "invalid output.url format")
    /\ AcceptedOutputDiffers

C3_Witness ==
    /\ Parsed
    /\ SameAsInput
    /\ m.input.url = Str(<<"a">>)
    /\ m.output.url = Str(<<"a", SP>>)
    /\ m.input.branch = Str(<<"a">>)
    /\ m.output.branch = Str(<<SP, "a">>)
    /\ perr # Nil
    /\ perr.msg = "output repository must differ from input (different URL or branch required)"

\* both locations carry non-blank parseable urls and their normalized
\* (url, branch) pairs differ
DistinctGoodRepos ==
    /\ IsMap(m.input)
    /\ IsMap(m.output)
    /\ GoodUrl(m.input)
    /\ GoodUrl(m.output)
    /\ \/ NormUrl(m.output) # NormUrl(m.input)
       \/ NormBranch(m.output) # NormBranch(m.input)

\* a branch carried exactly as the payload supplies it
SuppliedBranch(b) == IF IsString(b) THEN Ptr(b.s) ELSE Nil

\* C4 as stated: distinct well-formed input and output are accepted and the
\* result carries both urls and both branches exactly as supplied.
C4_Original ==
    (Parsed /\ DistinctGoodRepos)
        => /\ perr = Nil
           /\ r.Input # Nil
           /\ r.Output # Nil
           /\ r.Input.val.URL = m.input.url.s
           /\ r.Output.val.URL = m.output.url.s
           /\ r.Input.val.Branch = SuppliedBranch(m.input.branch)
           /\ r.Output.val.Branch = SuppliedBranch(m.output.branch)

\* C4 (amended): distinct well-formed input and output are accepted; the
\* result carries both urls exactly as supplied, and each branch exactly as
\* supplied when it has a non-white-space character, absent otherwise.
C4_DistinctAccepted ==
    (Parsed /\ DistinctGoodRepos)
        => /\ perr = Nil
           /\ r.Input # Nil
           /\ r.Output # Nil
           /\ r.Input.val.URL = m.input.url.s
           /\ r.Output.val.URL = m.output.url.s
           /\ r.Input.val.Branch = NormalizedBranch(m.input.branch)
           /\ r.Output.val.Branch = NormalizedBranch(m.output.branch)

C4_Witness ==
    /\ Parsed
    /\ DistinctGoodRepos
    /\ m.input.url = m.output.url
    /\ m.input.branch = Str(<<"a">>)
    /\ m.output.branch = Str(<<"a", "a">>)
    /\ perr = Nil
    /\ r.Output.val.Branch = Ptr(<<"a", "a">>)

\* C5: in an accepted result, for input and output alike, a branch that is
\* absent, not a string, empty or white space only is absent (never an empty
\* string), and a branch with a non-white-space character is stored verbatim,
\* surrounding white space included.
C5_BranchNormalization ==
    (Parsed /\ perr = Nil)
        => /\ r.Input # Nil
           /\ r.Input.val.Branch = NormalizedBranch(m.input.branch)
           /\ r.Input.val.Branch # Ptr(<<>>)
           /\ IsMap(m.output)
                => /\ r.Output # Nil
                   /\ r.Output.val.Branch = NormalizedBranch(m.output.branch)
                   /\ r.Output.val.Branch # Ptr(<<>>)

C5_Witness ==
    /\ Parsed
    /\ perr = Nil
    /\ m.input.branch = Str(<<SP, SP>>)
    /\ r.Input.val.Branch = Nil
    /\ IsMap(m.output)
    /\ m.output.branch = Str(<<SP, "a">>)
    /\ r.Output.val.Branch = Ptr(<<SP, "a">>)

\* C6: in an accepted result autoPush is unspecified when the key is omitted,
\* explicitly false for autoPush: false and explicitly true for autoPush:
\* true, and the three results differ from one another.
C6_AutoPushTriState ==
    (Parsed /\ perr = Nil)
        => /\ m.autoPush = Absent => r.AutoPush = Nil
           /\ m.autoPush = Bool(FALSE) => r.AutoPush = Ptr(FALSE)
           /\ m.autoPush = Bool(TRUE) => r.AutoPush = Ptr(TRUE)
           /\ r.AutoPush = Nil => ~IsBool(m.autoPush)
           /\ r.AutoPush # Nil => m.autoPush = Bool(r.AutoPush.val)

C6_Witness ==
    /\ Parsed
    /\ perr = Nil
    /\ m.autoPush = Bool(FALSE)
    /\ r.AutoPush = Ptr(FALSE)

\* the payload that spells out the literal fields of a result
PayloadOf(repo) ==
    LET location(loc) ==
            Map(Str(loc.URL),
                IF loc.Branch = Nil THEN Absent ELSE Str(loc.Branch.val))
    IN  [input    |-> location(repo.Input.val),
         output   |-> IF repo.Output = Nil
                      THEN Absent
                      ELSE location(repo.Output.val),
         autoPush |-> IF repo.AutoPush = Nil
                      THEN Absent
                      ELSE Bool(repo.AutoPush.val)]

\* C12: validating the payload rebuilt from the literal fields of an
\* accepted result succeeds and gives that same result.
C12_Idempotent ==
    (Parsed /\ perr = Nil)
        => ParseRepoMap(PayloadOf(r)) = [r |-> r, err |-> Nil]

C12_Witness ==
    /\ Parsed
    /\ perr = Nil
    /\ m.input.branch = Str(<<SP, "a">>)
    /\ m.output # Absent
    /\ IsMap(m.output)
    /\ m.output.url = Num
    /\ m.output.branch = Str(<<SP>>)
    /\ m.autoPush = Num
    /\ PayloadOf(r) # m

\* the message of the first rule the payload breaks, in the order: input
\* not a mapping, blank input url, unparseable input url, unparseable
\* non-blank output url, output equal to input; "" when it breaks none
FirstBrokenRule ==
    IF ~IsMap(m.input)
    THEN "input is required in repository configuration"
    ELSE IF BlankUrl(m.input)
    THEN "input.url is required"
    ELSE IF UrlParseFails(m.input.url.s)
    THEN "invalid input.url format"
    ELSE IF IsMap(m.output) /\ ~BlankUrl(m.output)
            /\ UrlParseFails(m.output.url.s)
    THEN "invalid output.url format"
    ELSE IF /\ IsMap(m.output)
            /\ NormUrl(m.output) = NormUrl(m.input)
            /\ NormBranch(m.output) = NormBranch(m.input)
    THEN "output repository must differ from input (different URL or branch required)"
    ELSE ""

\* C13: a rejected payload gets one error, that of the first rule it breaks
\* in the order above, and a payload that breaks none is accepted.
C13_ErrorPrecedence ==
    Parsed
        => IF FirstBrokenRule = ""
           THEN perr = Nil
           ELSE perr # Nil /\ perr.msg = FirstBrokenRule

C13_Witness ==
    /\ Parsed
    /\ IsMap(m.input)
    /\ IsMap(m.output)
    /\ m.input.url = Str(<<"a">>)
    /\ m.output.url = Str(<<"a", TAB>>)
    /\ m.input.branch = m.output.branch
    /\ perr # Nil
    /\ perr.msg = "invalid output.url format"

\* C15: with a non-blank parseable input url, an output mapping whose url is
\* absent, not a string, empty or white space only is accepted whatever its
\* branch, and the result has an output carrying that url (empty when the
\* payload has no string url).
C15_BlankOutputAccepted ==
    (Parsed /\ IsMap(m.input) /\ GoodUrl(m.input)
            /\ IsMap(m.output) /\ BlankUrl(m.output))
        => /\ perr = Nil
           /\ r.Output # Nil
           /\ r.Output.val.URL =
                 (IF IsString(m.output.url) THEN m.output.url.s ELSE <<>>)

C15_Witness ==
    /\ Parsed
    /\ IsMap(m.input)
    /\ GoodUrl(m.input)
    /\ IsMap(m.output)
    /\ m.output.url = Str(<<TAB, SP>>)
    /\ m.output.branch = m.input.branch
    /\ perr = Nil
    /\ r.Output # Nil
    /\ r.Output.val.URL = <<TAB, SP>>

\* the payload without its other keys and with each optional field of a
\* wrong type left out
OptionalFieldsOnly(p) ==
    LET location(lm) ==
            IF IsMap(lm)
            THEN Map(lm.url, IF IsString(lm.branch) THEN lm.branch ELSE Absent)
            ELSE lm
    IN  [input    |-> location(p.input),
         output   |-> IF IsMap(p.output) THEN location(p.output) ELSE Absent,
         autoPush |-> IF IsBool(p.autoPush) THEN p.autoPush ELSE Absent]

\* C14: optional fields of a wrong type count as absent and other keys are
\* ignored: the outcome is that of the payload without them, and with a
\* non-blank parseable input url a non-mapping output gives no output, a
\* non-string branch gives no branch and a non-boolean autoPush gives an
\* unspecified one, none of them being a reason to fail.
C14_WrongTypedOptionalAbsent ==
    Parsed
        => /\ [r |-> r, err |-> perr] = ParseRepoMap(OptionalFieldsOnly(m))
           /\ (IsMap(m.input) /\ GoodUrl(m.input))
                => /\ ~IsMap(m.output) => (r.Output = Nil /\ perr = Nil)
                   /\ ~IsString(m.input.branch) => r.Input.val.Branch = Nil
                   /\ (IsMap(m.output) /\ ~IsString(m.output.branch))
                        => (r.Output # Nil /\ r.Output.val.Branch = Nil)
                   /\ ~IsBool(m.autoPush) => r.AutoPush = Nil

C14_Witness ==
    /\ Parsed
    /\ m.name = Str(<<"a">>)
    /\ IsMap(m.input)
    /\ m.input.url = Str(<<"a">>)
    /\ m.input.branch = Num
    /\ m.input.path = Str(<<"a">>)
    /\ m.output = Str(<<"a">>)
    /\ m.autoPush = Num
    /\ perr = Nil
    /\ r = [Input    |-> Ptr([URL |-> <<"a">>, Branch |-> Nil]),
            Output   |-> Nil,
            AutoPush |-> Nil]

(***************************************************************************)
(* Properties of RetryWithBackoff, over the record of one call: log holds  *)
(* the result of every invocation and sleeps the argument of every sleep.  *)
(***************************************************************************)
Returned == rpc = "done"

AllFailed == \A k \in 1..Len(log) : log[k] # Nil

Min(a, b) == IF a < b THEN a ELSE b

\* C7: the operation is invoked at most maxRetries times; a success at
\* attempt k ends the call at once with k invocations, k-1 sleeps and a nil
\* result; when every attempt fails there are exactly maxRetries
\* invocations; with maxRetries = 1 there is one invocation and no sleep.
C7_AttemptsBounded ==
    /\ Len(log) <= (IF maxRetries > 0 THEN maxRetries ELSE 0)
    /\ \A k \in 1..Len(log) :
          log[k] = Nil
              => /\ k = Len(log)
                 /\ Returned
                 /\ rres = Nil
                 /\ Len(sleeps) = k - 1
    /\ (Returned /\ rres = Nil) => (log # <<>> /\ log[Len(log)] = Nil)
    /\ (Returned /\ maxRetries >= 1 /\ AllFailed) => Len(log) = maxRetries
    /\ (Returned /\ maxRetries = 1) => (Len(log) = 1 /\ sleeps = <<>>)

C7_Witness ==
    /\ Returned
    /\ maxRetries = 4
    /\ Len(log) = 3
    /\ log[1] # Nil
    /\ log[2] # Nil
    /\ log[3] = Nil
    /\ rres = Nil
    /\ Len(sleeps) = 2

\* C8: the k-th sleep, which follows the failed attempt of index k-1, lasts
\* exactly min(initialDelay * 2^(k-1), maxDelay); every failed attempt but
\* the last possible one is followed by a sleep and the last one is not;
\* maxRetries = 3, initialDelay = 1, maxDelay = 4 and an operation that
\* always fails give the delays 1, 2.
C8_Original ==
    /\ \A k \in 1..Len(sleeps) :
          sleeps[k] = Min(initialDelay * 2^(k - 1), maxDelay)
    /\ Len(sleeps) =
          Cardinality({k \in 1..Len(log) : log[k] # Nil /\ k < maxRetries})
    /\ (Returned /\ rres # Nil /\ maxRetries >= 1)
          => Len(sleeps) = maxRetries - 1
    /\ (Returned /\ rres # Nil /\ maxRetries = 3 /\ initialDelay = 1
            /\ maxDelay = 4)
          => sleeps = <<1, 2>>

\* C9: an error is returned only after maxRetries invocations that all
\* failed; it wraps the failure of the last invocation and names maxRetries.
C9_LastErrorWrapped ==
    (Returned /\ rres # Nil /\ maxRetries >= 1)
        => /\ Len(log) = maxRetries
           /\ AllFailed
           /\ rres.wraps = log[Len(log)]
           /\ rres.retries = maxRetries

C9_Witness ==
    /\ Returned
    /\ maxRetries = 2
    /\ Len(log) = 2
    /\ log[1] = Error("not found", "")
    /\ log[2] = Error("conflict", "")
    /\ rres # Nil
    /\ rres.wraps = Error("conflict", "")
    /\ rres.retries = 2

\* C10: once cancellation is signalled during an inter-attempt delay, the
\* operation is not invoked again, and the call returns an error that
\* reports the cancellation, not a result of the retries.
C10_Original ==
    [][cancelled
          => /\ log' = log
             /\ rpc' = "done"
                  => /\ rres' # Nil
                     /\ rres'.msg # "operation failed after %d retries"]_vars

\* the time time.Sleep(d) waits: none for a negative duration
SleptFor(d) == IF d < 0 THEN 0 ELSE d

RECURSIVE TotalSlept(_)
TotalSlept(s) ==
    IF s = <<>> THEN 0 ELSE SleptFor(Head(s)) + TotalSlept(Tail(s))

\* C17: with maxRetries >= 1 and non-negative initialDelay and maxDelay, at
\* every point of a run there are at most maxRetries-1 sleeps, none longer
\* than maxDelay, and together they last at most (maxRetries-1) * maxDelay.
C17_CumulativeBackoffBounded ==
    (maxRetries >= 1 /\ initialDelay >= 0 /\ maxDelay >= 0)
        => /\ Len(sleeps) <= maxRetries - 1
           /\ \A k \in 1..Len(sleeps) : sleeps[k] <= maxDelay
           /\ TotalSlept(sleeps) <= (maxRetries - 1) * maxDelay

C17_Witness ==
    /\ Returned
    /\ maxRetries = 3
    /\ initialDelay = 4
    /\ maxDelay = 4
    /\ AllFailed
    /\ sleeps = <<4, 4>>
    /\ TotalSlept(sleeps) = (maxRetries - 1) * maxDelay

\* C18: with positive initialDelay and maxDelay, once a sleep lasts maxDelay
\* every later one lasts maxDelay too, and the delays never shrink or turn
\* negative as the attempt index grows, also when initialDelay * 2^j is
\* beyond the range of a duration.
C18_Original ==
    (initialDelay > 0 /\ maxDelay > 0)
        => /\ \A k \in 1..Len(sleeps) : \A j \in k..Len(sleeps) :
                 sleeps[k] = maxDelay => sleeps[j] = maxDelay
           /\ \A k \in 1..Len(sleeps) : sleeps[k] >= 0
           /\ \A k \in 1..(Len(sleeps) - 1) : sleeps[k] <= sleeps[k + 1]

\* C19: with maxRetries <= 0 the operation is never invoked, there is no
\* sleep, and the call returns the error naming maxRetries, which wraps no
\* failure of the operation.
C19_NoAttemptsIsAnError ==
    (rpc # "idle" /\ maxRetries <= 0)
        => /\ log = <<>>
           /\ sleeps = <<>>
           /\ Returned
                => /\ rres # Nil
                   /\ rres.msg = "operation failed after %d retries"
                   /\ rres.retries = maxRetries
                   /\ rres.wraps = Nil

C19_Witness ==
    /\ Returned
    /\ maxRetries = 0
    /\ initialDelay = 1
    /\ maxDelay = 4
    /\ log = <<>>
    /\ sleeps = <<>>
    /\ rres # Nil
    /\ rres.wraps = Nil

(***************************************************************************)
(* Properties of ValidateSecretAccess, over the calls made (checks), the   *)
(* reviews sent, and the answer and result of the last call.               *)
(***************************************************************************)
Checked == gpc = "done"

LastCheck == checks[Len(checks)]

\* the result is the denial of the last call's verb and namespace
Denied ==
    /\ gres # Nil
    /\ gres.msg = "user not allowed to %s secrets in namespace %s"
    /\ gres.verb = LastCheck.verb
    /\ gres.namespace = LastCheck.namespace

\* the result is an error of the check itself, wrapping the API's failure
OracleFailed ==
    /\ gres # Nil
    /\ gres.msg = "RBAC check failed"
    /\ gres.wraps = answer.err

\* C11: the result is nil iff the API answered allowed, a denial iff it
\* answered not allowed, and an error wrapping the API's failure iff the
\* call to the API failed; a failure of the API is never reported as a
\* denial, nor a denial as a failure.
C11_Trichotomy ==
    Checked
        => /\ (gres = Nil) <=> (answer.err = Nil /\ answer.allowed)
           /\ Denied <=> (answer.err = Nil /\ ~answer.allowed)
           /\ OracleFailed <=> (answer.err # Nil)
           /\ ~(Denied /\ OracleFailed)

C11_Witness ==
    /\ Checked
    /\ answer = [allowed |-> FALSE, err |-> Error("timeout", "")]
    /\ OracleFailed
    /\ ~Denied

\* C16: every call sends exactly one review, whether the caller is allowed,
\* denied or the API fails; the review is a SelfSubjectAccessReview (it
\* names no user) for the resource "secrets" of the core group, with the
\* namespace and the verb of the call.
C16_OneReviewPerCall ==
    /\ Len(reviews) = Len(checks)
    /\ \A k \in 1..Len(reviews) :
          reviews[k] = [kind |-> "SelfSubjectAccessReview",
                        group |-> "",
                        resource |-> "secrets",
                        verb |-> checks[k].verb,
                        namespace |-> checks[k].namespace]

C16_Witness ==
    /\ Checked
    /\ Len(checks) = 2
    /\ Len(reviews) = 2
    /\ checks[1] # checks[2]
    /\ answer.err # Nil

(***************************************************************************)
(* Properties of the submit path of CreateSessionDialog.                   *)
(***************************************************************************)
Submitted == fpc = "submitted"

\* the payload the backend decodes from one repo of the request: a field
\* that is undefined is left out of the JSON
JsonRepo(repo) ==
    LET location(loc) ==
            Map(Str(loc.url),
                IF loc.branch = Undefined THEN Absent ELSE loc.branch)
    IN  [input    |-> location(repo.input),
         output   |-> IF repo.output = Undefined
                      THEN Absent
                      ELSE location(repo.output),
         autoPush |-> IF repo.autoPush = Undefined
                      THEN Absent
                      ELSE repo.autoPush]

\* a url that is blank for neither the frontend's trim nor the backend's
NotBlank(u) == JsTrim(u) # <<>> /\ TrimSpace(u) # <<>>

====
